---- MODULE Spec2Model ----
(***************************************************************************)
(* QMemstat: the streaming frame decoder PageInfoReader::addData and the   *)
(* mosaic layout / reverse lookup of MosaicWidget (mosaicwidget.cpp).      *)
(*                                                                         *)
(* Representation.  A byte is a number 0..255.  Addresses, lengths and use *)
(* counts are naturals; every value of a run stays below 2^31, the range   *)
(* of the model checker's integers, so no 64-bit wrap-around occurs within *)
(* the bounds.  A 32-bit page flag word is the set of its set bit numbers  *)
(* (bit 31, PRESENT, is outside the integer range as a number).  Native    *)
(* byte order is little endian.                                            *)
(***************************************************************************)
EXTENDS Integers, Sequences, FiniteSets, TLC

VARIABLES
    mode,             \* "network" (MosaicWidget(host, port)) or "local" (MosaicWidget(pid))
    frames,           \* the frames the remote producer sends, as indices into FrameMenu
    pos,              \* number of bytes of the stream that the socket has delivered
    proc,             \* the mappings of the watched local process, as <<gap, pages>>
    m_buffer,         \* PageInfoReader::m_buffer
    m_length,         \* PageInfoReader::m_length (-1: no length latched)
    m_mappedRegions,  \* PageInfoReader::m_mappedRegions
    m_regions,        \* MosaicWidget::m_regions
    m_largeRegions,   \* MosaicWidget::m_largeRegions, the row index <<firstRow, baseAddress>>
    rowCount,         \* height of m_img in tiles
    tiles,            \* the tiles painted into m_img by the last updatePageInfo, as runs
    call,             \* what the last addData call returned and did
    track,            \* the calls that delivered the current frame, if they began at its start
    shown,            \* what the last printPageFlagsAtPos emitted
    crashed           \* the process was terminated (failed assert, fault on a wild read)

vars == <<mode, frames, pos, proc, m_buffer, m_length, m_mappedRegions, m_regions,
          m_largeRegions, rowCount, tiles, call, track, shown, crashed>>

decoderVars == <<m_buffer, m_length, m_mappedRegions>>
widgetVars == <<m_regions, m_largeRegions, rowCount, tiles>>

(***************************************************************************)
(* Program constants.                                                      *)
(***************************************************************************)
pageSize == 4096
s_pixelsPerTile == 4
s_columnCount == 512
maxAllowedGap == 64 * pageSize
tilesPerSeparator == 2
sizeofSizeT == 8

(***************************************************************************)
(* Bounds of the model.                                                    *)
(***************************************************************************)
MaxFrames == 2        \* frames per stream
MaxRegions == 2       \* regions per locally collected snapshot
MaxOverrun == 16      \* bytes after the buffer's end that a wild read can still reach
MaxChunk == 3         \* largest delivery that does not end at a frame boundary

Min(a, b) == IF a < b THEN a ELSE b
Max(a, b) == IF a > b THEN a ELSE b

(***************************************************************************)
(* Fixed-width little-endian integers.                                     *)
(***************************************************************************)
RECURSIVE Pow2(_)
Pow2(n) == IF n = 0 THEN 1 ELSE 2 * Pow2(n - 1)

\* the n low bytes of a natural, least significant first, zero extended
RECURSIVE LeBytes(_, _)
LeBytes(v, n) == IF n = 0 THEN <<>> ELSE <<v % 256>> \o LeBytes(v \div 256, n - 1)

\* *reinterpret_cast<const uint32_t *>(p) for a count or length
U32(b) == b[1] + 256 * b[2] + 65536 * b[3] + 16777216 * b[4]

\* *reinterpret_cast<const uint64_t *>(p); the high half is zero within the bounds
U64(b) == U32(SubSeq(b, 1, 4))

\* a 32-bit flag word read from four bytes, as the set of its set bits
BitsOfBytes(b) == {i \in 0..31 : (b[(i \div 8) + 1] \div Pow2(i % 8)) % 2 = 1}

\* the four bytes of a flag word given as a set of bits
BytesOfBits(s) ==
    [k \in 1..4 |->
        LET F[i \in 0..8] ==
                IF i = 0 THEN 0
                ELSE F[i - 1] + (IF (8 * (k - 1) + i - 1) \in s THEN Pow2(i - 1) ELSE 0)
        IN  F[8]]

(***************************************************************************)
(* printablePageFlags.  A QString is kept as the sequence of the pieces    *)
(* appended to it: flag names and the separator ", ".                      *)
(***************************************************************************)
pageFlagCount == 32

\* static const char *pageFlagNames[pageFlagCount]; "" stands for nullptr
pageFlagNames ==
    << "LOCKED", "ERROR", "REFERENCED", "UPTODATE", "DIRTY", "LRU", "ACTIVE", "SLAB",
       "WRITEBACK", "RECLAIM", "BUDDY", "MMAP", "ANON", "SWAPCACHE", "SWAPBACKED",
       "COMPOUND_HEAD", "COMPOUND_TAIL", "HUGE", "UNEVICTABLE", "HWPOISON", "NOPAGE",
       "KSM", "THP", "", "", "", "", "",
       "SOFT_DIRTY", "FILE_PAGE / SHARE_ANON", "SWAPPED", "PRESENT" >>

\* static bool isFlagSet(uint32_t flags, uint testFlagShift)
isFlagSet(flags, testFlagShift) == testFlagShift \in flags

\* QString printablePageFlags(uint32_t flags)
\* failed: assert(pageFlagNames[i]) failed, which terminates the process
printablePageFlags(flags) ==
    LET F[n \in 0..pageFlagCount] ==
            IF n = 0 THEN [failed |-> FALSE, ret |-> <<>>]
            ELSE LET i == n - 1
                     prev == F[n - 1]
                 IN  IF prev.failed \/ ~isFlagSet(flags, i) THEN prev
                     ELSE IF pageFlagNames[i + 1] = "" THEN [prev EXCEPT !.failed = TRUE]
                     ELSE [prev EXCEPT !.ret = prev.ret \o <<pageFlagNames[i + 1], ", ">>]
        out == F[pageFlagCount]
    IN  IF out.failed \/ out.ret = <<>> THEN out
        ELSE [out EXCEPT !.ret = SubSeq(out.ret, 1, Len(out.ret) - 1)]

(***************************************************************************)
(* PageInfoReader::addData.                                                *)
(*                                                                         *)
(* The decoder reads through raw pointers into m_buffer and checks no      *)
(* length field, so a read may fall behind the end of the buffer.  Such a  *)
(* read is undefined: it either faults (oob = -1) or finds the byte value  *)
(* oob in the memory behind the buffer; reaching more than MaxOverrun      *)
(* bytes behind the buffer always faults.                                  *)
(***************************************************************************)
OobOutcomes == {-1, 0, 1}

\* buf[i] through the raw pointer, i counted from 0
ReadByte(buf, i, oob) == IF i < Len(buf) THEN buf[i + 1] ELSE oob

\* the n bytes at buf + p
Rd(buf, p, n, oob) == [k \in 1..n |-> ReadByte(buf, p + k - 1, oob)]

\* pos += (backingFileLength + sizeof(uint32_t) - 1) & ~0x3
FileAdvanceNoPad(backingFileLength) == backingFileLength
FileAdvance(backingFileLength) == ((backingFileLength + 4 - 1) \div 4) * 4

\* The complete-frame test of the loop.
FrameCompleteStrict(buf, len) == len >= 0 /\ Len(buf) - sizeofSizeT > len
FrameComplete(buf, len) == len >= 0 /\ Len(buf) - sizeofSizeT >= len

\* The length latch at the head of the loop.
LatchLength(buf, len) ==
    IF len < 0 /\ Len(buf) >= sizeofSizeT THEN U64(SubSeq(buf, 1, 8)) ELSE len

\* One pass of the region loop, lines 152-171: the region at buf + p.
\* far: the end of the bytes it reads; crash: the read faults, or end < start
\* makes arrayLength wrap to an allocation that cannot succeed.
ParseRegion(buf, p, oob) ==
    LET start == U64(Rd(buf, p, 8, oob))
        end == U64(Rd(buf, p + 8, 8, oob))
        backingFileLength == U32(Rd(buf, p + 16, 4, oob))
        filePos == p + 20
        arrayPos == filePos + FileAdvance(backingFileLength)
        arrayLength == (end - start) \div pageSize
        far == Max(Max(p + 20, filePos + backingFileLength),
                   IF arrayLength > 0 THEN arrayPos + 8 * arrayLength ELSE 0)
        wild == p + 20 > Len(buf) + MaxOverrun
        crash == \/ wild
                 \/ end < start
                 \/ far > Len(buf) + MaxOverrun
                 \/ far > Len(buf) /\ oob = -1
    IN  IF crash
        THEN [crash |-> TRUE, far |-> IF wild THEN p + 20 ELSE far, next |-> p, mr |-> <<>>]
        ELSE [crash |-> FALSE,
              far |-> far,
              next |-> arrayPos + 2 * arrayLength * 4,
              mr |-> [start |-> start,
                      end |-> end,
                      backingFile |-> Rd(buf, filePos, backingFileLength, oob),
                      useCounts |-> [i \in 1..arrayLength |->
                                        U32(Rd(buf, arrayPos + 4 * (i - 1), 4, oob))],
                      combinedFlags |-> [i \in 1..arrayLength |->
                                        BitsOfBytes(Rd(buf, arrayPos + 4 * arrayLength
                                                            + 4 * (i - 1), 4, oob))]]]

\* for (size_t pos = sizeof(size_t); pos < endPos; ) { ... push_back }
RECURSIVE ParseRegions(_, _, _, _, _, _)
ParseRegions(buf, p, endPos, oob, acc, far) ==
    IF p >= endPos
    THEN [crash |-> FALSE, regions |-> acc, cursor |-> p, far |-> far]
    ELSE LET r == ParseRegion(buf, p, oob)
         IN  IF r.crash
             THEN [crash |-> TRUE, regions |-> acc, cursor |-> p, far |-> Max(far, r.far)]
             ELSE ParseRegions(buf, r.next, endPos, oob, Append(acc, r.mr), Max(far, r.far))

\* d: the decoder during a call, with the call's bookkeeping:
\*   ret      the return value so far
\*   decoded  number of frames decoded by this call
\*   cursorOk the last decoded frame ended with pos == endPos
\*   overran  some read reached a byte at or behind its frame's end
\*   wild     some read reached a byte behind the end of m_buffer
\*   crash    the call faulted

\* lines 146-175 once the regions p of the frame are read: the region list is
\* replaced, the frame removed, the length unlatched
DecodedFrameMerging(d, endPos, p) ==
    [d EXCEPT !.buffer = SubSeq(d.buffer, endPos + 1, Len(d.buffer)),
              !.length = -1,
              !.regions = d.regions \o p.regions,
              !.decoded = d.decoded + 1,
              !.cursorOk = (p.cursor = endPos)]
DecodedFrameKeepingHeader(d, endPos, p) ==
    [d EXCEPT !.buffer = SubSeq(d.buffer, endPos - sizeofSizeT + 1, Len(d.buffer)),
              !.length = -1,
              !.regions = p.regions,
              !.decoded = d.decoded + 1,
              !.cursorOk = (p.cursor = endPos)]
DecodedFrame(d, endPos, p) ==
    [d EXCEPT !.buffer = SubSeq(d.buffer, endPos + 1, Len(d.buffer)),
              !.length = -1,
              !.regions = p.regions,
              !.decoded = d.decoded + 1,
              !.cursorOk = (p.cursor = endPos)]

\* while (true) { latch; if complete: decode, remove, unlatch; else break }
RECURSIVE DecodeLoop(_, _)
DecodeLoop(d, oob) ==
    LET len == LatchLength(d.buffer, d.length)
    IN  IF FrameComplete(d.buffer, len)
        THEN LET endPos == len + sizeofSizeT
                 p == ParseRegions(d.buffer, sizeofSizeT, endPos, oob, <<>>, 0)
                 seen == [d EXCEPT !.length = len,
                                   !.ret = TRUE,
                                   !.overran = d.overran \/ p.far > endPos,
                                   !.wild = d.wild \/ p.far > Len(d.buffer)]
             IN  IF p.crash
                 THEN [seen EXCEPT !.crash = TRUE]
                 ELSE DecodeLoop(DecodedFrame(seen, endPos, p), oob)
        ELSE [d EXCEPT !.length = len]

\* bool PageInfoReader::addData(const QByteArray &data)
AddDataReplacing(buffer, length, regions, data, oob) ==
    DecodeLoop([buffer |-> data, length |-> length, regions |-> regions,
                ret |-> FALSE, decoded |-> 0, cursorOk |-> TRUE, overran |-> FALSE,
                wild |-> FALSE, crash |-> FALSE], oob)
AddData(buffer, length, regions, data, oob) ==
    DecodeLoop([buffer |-> buffer \o data, length |-> length, regions |-> regions,
                ret |-> FALSE, decoded |-> 0, cursorOk |-> TRUE, overran |-> FALSE,
                wild |-> FALSE, crash |-> FALSE], oob)

(***************************************************************************)
(* MosaicWidget::updatePageInfo.                                           *)
(*                                                                         *)
(* The image is kept as the list of tile runs painted into it: the tiles   *)
(* of one pass of a painting while loop, columns column..endColumn-1 of    *)
(* one row; the tile at column c of a "page" run shows page                *)
(* page + (c - column) of regions[region] (pages counted from 0).          *)
(* A failed assert terminates the process.                                 *)
(***************************************************************************)

\* if (r.start > largeRegion.second + maxAllowedGap)
StartsLargeRegionInclusive(r, largeRegion) == r.start >= largeRegion[2] + maxAllowedGap
StartsLargeRegion(r, largeRegion) == r.start > largeRegion[2] + maxAllowedGap

\* lines 344-356: the (start, end) pairs of the large contiguous regions
LargeRegionsOfDroppingLast(regions) ==
    LET F[i \in 0..Len(regions)] ==
            IF i = 0
            THEN [done |-> <<>>, largeRegion |-> <<regions[1].start, regions[1].end>>]
            ELSE LET r == regions[i]
                     prev == F[i - 1]
                 IN  IF StartsLargeRegion(r, prev.largeRegion)
                     THEN [done |-> Append(prev.done, prev.largeRegion),
                           largeRegion |-> <<r.start, r.end>>]
                     ELSE [done |-> prev.done,
                           largeRegion |-> <<prev.largeRegion[1], r.end>>]
    IN  F[Len(regions)].done
LargeRegionsOf(regions) ==
    LET F[i \in 0..Len(regions)] ==
            IF i = 0
            THEN [done |-> <<>>, largeRegion |-> <<regions[1].start, regions[1].end>>]
            ELSE LET r == regions[i]
                     prev == F[i - 1]
                 IN  IF StartsLargeRegion(r, prev.largeRegion)
                     THEN [done |-> Append(prev.done, prev.largeRegion),
                           largeRegion |-> <<r.start, r.end>>]
                     ELSE [done |-> prev.done,
                           largeRegion |-> <<prev.largeRegion[1], r.end>>]
    IN  Append(F[Len(regions)].done, F[Len(regions)].largeRegion)

\* rows of one large region, lines 374-375
RowsOfFloor(largeRegion) == ((largeRegion[2] - largeRegion[1]) \div pageSize) \div s_columnCount
RowsOf(largeRegion) ==
    ((largeRegion[2] - largeRegion[1]) \div pageSize + (s_columnCount - 1)) \div s_columnCount

\* lines 371-376
RowCountOf(largeRegions) ==
    LET F[i \in 0..Len(largeRegions)] ==
            IF i = 0 THEN (Len(largeRegions) - 1) * tilesPerSeparator
            ELSE F[i - 1] + RowsOf(largeRegions[i])
    IN  F[Len(largeRegions)]

\* bits of the flag word that the painting tests: KPF_MMAP, KPF_ANON, KPF_NOPAGE,
\* KPF_THP of <linux/kernel-page-flags.h>, and bit 31, "present"
KPF_MMAP == 11
KPF_ANON == 12
KPF_NOPAGE == 20
KPF_THP == 22
PRESENT == 31

\* the colour of the tile of one page, lines 418-435; flags is the set of set bits
TileColorCountFirst(flags, useCount) ==
    IF PRESENT \notin flags THEN "colorGray"
    ELSE IF KPF_MMAP \in flags /\ KPF_ANON \notin flags
    THEN IF useCount > 1 THEN "colorGreen" ELSE "colorGreenDark"
    ELSE IF useCount = 1 THEN "colorMagenta"
    ELSE IF useCount > 1 THEN "colorYellow"
    ELSE IF KPF_THP \in flags THEN "colorMagentaLight"
    ELSE IF KPF_NOPAGE \in flags THEN "colorRedDark"
    ELSE "colorWhite"
TileColor(flags, useCount) ==
    IF PRESENT \notin flags THEN "colorGray"
    ELSE IF KPF_MMAP \in flags /\ KPF_ANON \notin flags
    THEN IF useCount > 1 THEN "colorGreen" ELSE "colorGreenDark"
    ELSE IF KPF_THP \in flags THEN "colorMagentaLight"
    ELSE IF useCount = 1 THEN "colorMagenta"
    ELSE IF useCount > 1 THEN "colorYellow"
    ELSE IF KPF_NOPAGE \in flags THEN "colorRedDark"
    ELSE "colorWhite"

Run(kind, row, column, endColumn, region, page) ==
    [kind |-> kind, row |-> row, column |-> column, endColumn |-> endColumn,
     region |-> region, page |-> page]

\* if (column == s_columnCount) { column = 0; row++; }
Wrap(ps) ==
    IF ps.column = s_columnCount THEN [ps EXCEPT !.column = 0, !.row = ps.row + 1] ELSE ps

\* while (iPage < region->useCounts.size()) { ... }, lines 413-443
RECURSIVE PaintPages(_, _, _, _)
PaintPages(ps, regions, cur, iPage) ==
    LET size == Len(regions[cur].useCounts)
    IN  IF iPage < size
        THEN LET endColumn == Min(ps.column + size - iPage, s_columnCount)
                 painted == [ps EXCEPT
                                !.tiles = Append(ps.tiles, Run("page", ps.row, ps.column,
                                                               endColumn, cur, iPage)),
                                !.column = endColumn]
             IN  PaintPages(Wrap(painted), regions, cur, iPage + (endColumn - ps.column))
        ELSE ps

\* while (gapPages) { ... }, lines 463-474
RECURSIVE PaintGap(_, _)
PaintGap(ps, gapPages) ==
    IF gapPages # 0
    THEN LET endColumn == Min(s_columnCount, ps.column + gapPages)
             painted == [ps EXCEPT
                            !.tiles = Append(ps.tiles, Run("gap", ps.row, ps.column,
                                                           endColumn, 0, 0)),
                            !.column = endColumn]
         IN  PaintGap(Wrap(painted), gapPages - (endColumn - ps.column))
    ELSE ps

\* size_t gapPages, lines 454-461; next: the index of regions[iMappedRegion], or 0 past the end
GapPagesOf(ps, regions, cur, next, largeRegion) ==
    IF next # 0 /\ regions[next].start < largeRegion[2]
    THEN (regions[next].start - regions[cur].end) \div pageSize
    ELSE IF ps.column # 0 THEN s_columnCount - ps.column ELSE 0

\* for ( ; region->end <= largeRegion.second; region = &regions[iMappedRegion]) { ... }
\* ps.iMappedRegion counts from 0 as in the code; regions[ps.iMappedRegion + 1] is *region
\* at the head of each pass.
RECURSIVE PaintRegions(_, _, _)
PaintRegions(ps, regions, largeRegion) ==
    LET cur == ps.iMappedRegion + 1
        region == regions[cur]
    IN  IF ~(region.end <= largeRegion[2])
        THEN ps
        ELSE IF ~(region.end >= region.start)
        THEN [ps EXCEPT !.crash = TRUE]
        ELSE
        LET p1 == PaintPages(ps, regions, cur, 0)
            iPage == Len(region.useCounts)
            next == IF cur + 1 <= Len(regions) THEN cur + 1 ELSE 0
            gapPages == GapPagesOf(p1, regions, cur, next, largeRegion)
            p2 == PaintGap([p1 EXCEPT !.iMappedRegion = ps.iMappedRegion + 1], gapPages)
        IN  IF \/ region.start + iPage * pageSize # region.end
               \/ next # 0 /\ regions[next].start < largeRegion[2]
                           /\ ~(regions[next].start >= region.end)
               \/ ~(gapPages < s_columnCount)
            THEN [p1 EXCEPT !.crash = TRUE]
            ELSE IF next = 0 THEN p2 ELSE PaintRegions(p2, regions, largeRegion)

\* the colour that cc.paintTile gave the tile at column c of a run
ColorOfTile(regions, run, c) ==
    IF run.kind = "page"
    THEN LET i == run.page + (c - run.column) + 1
         IN  TileColor(regions[run.region].combinedFlags[i], regions[run.region].useCounts[i])
    ELSE IF run.kind = "gap" THEN "colorCyan"
    ELSE "colorBlack"

\* the separator rows after a large region, lines 485-489
Separators(row, rows) ==
    [k \in 1..Max(0, Min(tilesPerSeparator, rows - row)) |->
        Run("separator", row + k - 1, 0, s_columnCount, 0, 0)]

\* for (pair<quint64, quint64> largeRegion : largeRegions) { ... }, lines 401-491
RECURSIVE PaintLargeRegions(_, _, _, _, _)
PaintLargeRegions(ps, regions, largeRegions, k, rows) ==
    IF k > Len(largeRegions) \/ ps.crash
    THEN ps
    ELSE IF ~(ps.iMappedRegion < Len(regions))
    THEN [ps EXCEPT !.crash = TRUE]
    ELSE
    LET region == regions[ps.iMappedRegion + 1]
        begun == [ps EXCEPT !.column = 0,
                            !.m_largeRegions = Append(ps.m_largeRegions,
                                                      <<ps.row, region.start>>)]
        p == PaintRegions(begun, regions, largeRegions[k])
    IN  IF p.crash \/ p.column # 0
        THEN [p EXCEPT !.crash = TRUE]
        ELSE PaintLargeRegions([p EXCEPT !.tiles = p.tiles \o Separators(p.row, rows),
                                         !.row = p.row + tilesPerSeparator],
                               regions, largeRegions, k + 1, rows)

\* the asserts of lines 316-329
InputAsserts(regions) ==
    /\ \A i \in 1..Len(regions) : regions[i].end >= regions[i].start
    /\ \A i \in 2..Len(regions) : regions[i].start >= regions[i - 1].end

\* void MosaicWidget::updatePageInfo(const vector<MappedRegion> &regions)
\* crash: an assert failed; m_regions and m_largeRegions are as the code left them.
UpdatePageInfo(regions) ==
    IF regions = <<>>
    THEN [crash |-> FALSE, painted |-> TRUE, m_largeRegions |-> <<>>, rowCount |-> 0,
          tiles |-> <<>>]
    ELSE IF ~InputAsserts(regions)
    THEN [crash |-> TRUE, painted |-> FALSE, m_largeRegions |-> <<>>, rowCount |-> 0,
          tiles |-> <<>>]
    ELSE LET largeRegions == LargeRegionsOf(regions)
             rows == RowCountOf(largeRegions)
             p == PaintLargeRegions([row |-> 0, column |-> 0, iMappedRegion |-> 0,
                                     m_largeRegions |-> <<>>, tiles |-> <<>>,
                                     crash |-> FALSE],
                                    regions, largeRegions, 1, rows)
         IN  [crash |-> p.crash, painted |-> TRUE, m_largeRegions |-> p.m_largeRegions,
              rowCount |-> rows, tiles |-> p.tiles]

(***************************************************************************)
(* Reverse lookup: addressAtPos and printPageFlagsAtAddr.                  *)
(***************************************************************************)

\* int division of C++, truncating toward zero
CDiv(a, b) == IF a >= 0 THEN a \div b ELSE -((-a) \div b)

\* std::upper_bound(first, last, value, comp) with comp(lhs, rhs) = lhs < key of
\* rhs, over a range sorted by key: the first index whose key is greater than
\* value, Len(keys) + 1 for end()
UpperBound(keys, value) ==
    LET hits == {i \in 1..Len(keys) : value < keys[i]}
    IN  IF hits = {} THEN Len(keys) + 1 ELSE CHOOSE i \in hits : \A j \in hits : i <= j

\* quint32 row, line 506
RowOfPos(y) == Max(0, y) \div s_pixelsPerTile

\* quint32 column = qBound(0, x / int(s_pixelsPerTile), int(s_columnCount)), line 507
ColumnOfPos(x) == Max(0, Min(CDiv(x, s_pixelsPerTile), s_columnCount))

\* lines 509-519 for the tile (row, column); 0 is the "no address" result
AddressAtCellFirstEntry(largeRegions, row, column) ==
    IF largeRegions = <<>> THEN 0
    ELSE largeRegions[1][2]
         + ((row - largeRegions[1][1]) * s_columnCount + column) * pageSize
AddressAtCell(largeRegions, row, column) ==
    LET lIt == UpperBound([i \in 1..Len(largeRegions) |-> largeRegions[i][1]], row)
    IN  IF lIt = 1 THEN 0
        ELSE largeRegions[lIt - 1][2]
             + ((row - largeRegions[lIt - 1][1]) * s_columnCount + column) * pageSize

\* quint64 MosaicWidget::addressAtPos(const QPoint &widgetPos)
AddressAtPos(largeRegions, x, y) == AddressAtCell(largeRegions, RowOfPos(y), ColumnOfPos(x))

NoData == [kind |-> "none"]

\* void MosaicWidget::printPageFlagsAtAddr(quint64 addr): what it emits.
\*   "page"   showFlags(flags) and showPageInfo(addr, useCount, backingFile)
\*   "none"   nothing
\*   "assert" the Q_ASSERT of line 536 fails
\*   "wild"   index is not an index of the region's arrays
PrintPageFlagsAtAddr(regions, addr) ==
    IF addr = 0 THEN NoData
    ELSE LET rIt == UpperBound([i \in 1..Len(regions) |-> regions[i].end], addr)
         IN  IF rIt = Len(regions) + 1 THEN NoData
             ELSE IF regions[rIt].start > addr
             THEN IF rIt = 1 THEN [kind |-> "assert"] ELSE NoData
             ELSE LET index == (addr - regions[rIt].start) \div pageSize
                  IN  IF index >= Len(regions[rIt].combinedFlags)
                         \/ index >= Len(regions[rIt].useCounts)
                      THEN [kind |-> "wild"]
                      ELSE [kind |-> "page",
                            addr |-> addr,
                            flags |-> regions[rIt].combinedFlags[index + 1],
                            useCount |-> regions[rIt].useCounts[index + 1],
                            backingFile |-> regions[rIt].backingFile]

\* void MosaicWidget::printPageFlagsAtPos(const QPoint &widgetPos)
PrintPageFlagsAtPos(regions, largeRegions, x, y) ==
    PrintPageFlagsAtAddr(regions, AddressAtPos(largeRegions, x, y))

(***************************************************************************)
(* The producers.  The remote collector writes frames in the wire format   *)
(* of the specification; the local collector (PageInfo) hands over the     *)
(* regions of the watched process.                                         *)
(***************************************************************************)
MappedRegion(start, end, backingFile, useCounts, combinedFlags) ==
    [start |-> start, end |-> end, backingFile |-> backingFile,
     useCounts |-> useCounts, combinedFlags |-> combinedFlags]

RECURSIVE Concat(_)
Concat(ss) == IF ss = <<>> THEN <<>> ELSE Head(ss) \o Concat(Tail(ss))

\* region := start:u64 end:u64 backingFileLen:u32 bytes pad useCounts combinedFlags
EncodeRegion(mr) ==
    LeBytes(mr.start, 8) \o LeBytes(mr.end, 8) \o LeBytes(Len(mr.backingFile), 4)
    \o mr.backingFile
    \o [k \in 1..((4 - (Len(mr.backingFile) % 4)) % 4) |-> 0]
    \o Concat([i \in 1..Len(mr.useCounts) |-> LeBytes(mr.useCounts[i], 4)])
    \o Concat([i \in 1..Len(mr.combinedFlags) |-> BytesOfBits(mr.combinedFlags[i])])

\* frame := length:u64 payload
EncodeFrame(regions) ==
    LET payload == Concat([i \in 1..Len(regions) |-> EncodeRegion(regions[i])])
    IN  LeBytes(Len(payload), 8) \o payload

\* A frame whose length field announces only the first keep bytes of the payload.
TruncatedFrame(regions, keep) ==
    LeBytes(keep, 8) \o SubSeq(EncodeFrame(regions), 9, 8 + keep)

WellFormedRegion(mr) ==
    /\ mr.end > mr.start
    /\ (mr.end - mr.start) % pageSize = 0
    /\ Len(mr.useCounts) = (mr.end - mr.start) \div pageSize
    /\ Len(mr.combinedFlags) = Len(mr.useCounts)

Anon1 == MappedRegion(pageSize, 2 * pageSize, <<>>, <<1>>, <<{31}>>)
File2 == MappedRegion(0, 2 * pageSize, <<47>>, <<2, 0>>, <<{11, 31}, {}>>)
Heap1 == MappedRegion(3 * pageSize, 4 * pageSize, <<>>, <<3>>, <<{12, 22, 31}>>)
Named1 == MappedRegion(pageSize, 2 * pageSize, <<97, 98, 99, 100>>, <<1>>, <<{31}>>)

\* The frames a stream is made of.  wellFormed: the bytes are the encoding of
\* the regions.  The last two are cut short: the first lacks the flag array of
\* its region, the second the backing file bytes and both arrays.
FrameMenu ==
    << [regions |-> <<>>, bytes |-> EncodeFrame(<<>>), wellFormed |-> TRUE],
       [regions |-> <<Anon1>>, bytes |-> EncodeFrame(<<Anon1>>), wellFormed |-> TRUE],
       [regions |-> <<File2, Heap1>>, bytes |-> EncodeFrame(<<File2, Heap1>>),
        wellFormed |-> TRUE],
       [regions |-> <<Anon1>>, bytes |-> TruncatedFrame(<<Anon1>>, 24),
        wellFormed |-> FALSE],
       [regions |-> <<Named1>>, bytes |-> TruncatedFrame(<<Named1>>, 20),
        wellFormed |-> FALSE] >>

Streams == UNION {[1..n -> 1..Len(FrameMenu)] : n \in 1..MaxFrames}

\* Frames of a producer that does not keep the regions' invariants.  Their
\* bytes are the encoding of their regions: a region of no pages, a region
\* that ends in the middle of a page, two regions in descending order, and
\* two regions of no pages 64 pages apart before a third far behind them.
Zero1 == MappedRegion(pageSize, pageSize, <<>>, <<>>, <<>>)
Odd1 == MappedRegion(pageSize, 2 * pageSize + 2048, <<>>, <<1>>, <<{31}>>)
Zero65 == MappedRegion(65 * pageSize, 65 * pageSize, <<>>, <<>>, <<>>)
Far1 == MappedRegion(200 * pageSize, 201 * pageSize, <<>>, <<2>>, <<{31}>>)
HostileMenu ==
    << [regions |-> <<Zero1>>, bytes |-> EncodeFrame(<<Zero1>>), wellFormed |-> TRUE],
       [regions |-> <<Odd1>>, bytes |-> EncodeFrame(<<Odd1>>), wellFormed |-> TRUE],
       [regions |-> <<Heap1, Anon1>>, bytes |-> EncodeFrame(<<Heap1, Anon1>>),
        wellFormed |-> TRUE],
       [regions |-> <<Zero1, Zero65, Far1>>, bytes |-> EncodeFrame(<<Zero1, Zero65, Far1>>),
        wellFormed |-> TRUE] >>

\* every frame by its index: those of FrameMenu, then those of HostileMenu
AllFrames == FrameMenu \o HostileMenu

\* streams of the frame <<Anon1>> and the frames of HostileMenu
HostileStreams ==
    UNION {[1..n -> {2} \cup (Len(FrameMenu) + 1)..Len(AllFrames)] : n \in 1..MaxFrames}

\* the bytes of a stream, and the offsets at which its frames end (0 before the first)
StreamBytes ==
    [fs \in Streams \cup HostileStreams |->
        Concat([i \in 1..Len(fs) |-> AllFrames[fs[i]].bytes])]
FrameEnd ==
    [fs \in Streams \cup HostileStreams |->
        [k \in 0..Len(fs) |-> Len(Concat([i \in 1..k |-> AllFrames[fs[i]].bytes]))]]
Stream(fs) == StreamBytes[fs]

\* number of frames of fs that end at or before stream offset p
FramesBefore(fs, p) == Cardinality({k \in 1..Len(fs) : FrameEnd[fs][k] <= p})

AtFrameStart(fs, p) == \E k \in 0..Len(fs) : FrameEnd[fs][k] = p

\* the index of the frame that holds stream byte p + 1, and the offset of its end
FrameAt(fs, p) == FramesBefore(fs, p) + 1
NextFrameEnd(fs, p) == FrameEnd[fs][FrameAt(fs, p)]

\* the sizes of the next delivery when p bytes have been delivered: any size that
\* ends at a frame boundary, at most MaxChunk otherwise
ChunkSizes(fs, p) ==
    (1..Min(MaxChunk, FrameEnd[fs][Len(fs)] - p))
    \cup {FrameEnd[fs][k] - p : k \in {j \in 1..Len(fs) : FrameEnd[fs][j] > p}}

\* The watched process as the local collector sees it: a list of
\* <<gap, pages>>, the pages of each mapping and the unmapped pages before it.
StartPages == {0, 1}
GapPages == {0, 64, 65}
RegionPages == {0, 2, 512, 513}
FlagWords == << {31}, {}, {11, 31}, {12, 22, 31}, {20, 31} >>

LocalRegions(shape) ==
    LET F[i \in 0..Len(shape)] ==
            IF i = 0 THEN <<>>
            ELSE LET start == IF i = 1 THEN shape[1][1] * pageSize
                              ELSE F[i - 1][i - 1].end + shape[i][1] * pageSize
                 IN  Append(F[i - 1],
                            MappedRegion(start, start + shape[i][2] * pageSize,
                                         IF i % 2 = 1 THEN <<>> ELSE <<47, 97>>,
                                         [j \in 1..shape[i][2] |-> (j + i) % 3],
                                         [j \in 1..shape[i][2] |->
                                             FlagWords[((j + i) % Len(FlagWords)) + 1]]))
    IN  F[Len(shape)]

\* what the next poll can find: the same mappings, one more, or none (the process is gone)
NextShapes(shape) ==
    {shape, <<>>}
    \cup IF Len(shape) >= MaxRegions THEN {}
         ELSE {Append(shape, <<g, n>>) :
                  g \in (IF shape = <<>> THEN StartPages ELSE GapPages), n \in RegionPages}

\* widget positions of mouse events, in pixels
PosX == {-5, 2, 6, 2048}
PosY == {-1, 5, 13}

(***************************************************************************)
(* The state machine.                                                      *)
(***************************************************************************)
\* call: the bookkeeping of the last addData call, and
\*   kept      the call left m_mappedRegions as it was
\*   first     the first frame of the stream that the call's bytes completed
\*   last      the last frame of the stream that the call's bytes completed, 0 if none
\* track: the decoder as it was when the first byte of the current frame was
\* delivered at the head of a call, the number of calls since then that
\* returned true, and whether there was more than one call; start = -1 when
\* the frame's first byte came in the middle of a call
NoCall == [ret |-> FALSE, decoded |-> 0, cursorOk |-> TRUE,
           overran |-> FALSE, wild |-> FALSE, crash |-> FALSE, kept |-> TRUE, first |-> 1,
           last |-> 0]
NoTrack == [start |-> -1, buffer |-> <<>>, length |-> -1, regions |-> <<>>, trues |-> 0,
            split |-> FALSE]

\* the decoder and the bookkeeping after construction
InitCommon ==
    /\ pos = 0
    /\ m_buffer = <<>>
    /\ m_length = -1
    /\ m_mappedRegions = <<>>
    /\ call = NoCall
    /\ track = NoTrack
    /\ shown = NoData
    /\ crashed = FALSE

\* MosaicWidget(const QByteArray &host, uint port): nothing received yet
InitNetwork ==
    /\ mode = "network"
    /\ frames \in Streams
    /\ proc = <<>>
    /\ m_regions = <<>>
    /\ m_largeRegions = <<>>
    /\ rowCount = 0
    /\ tiles = <<>>
    /\ InitCommon

\* MosaicWidget(uint pid): the constructor has polled once
InitLocal ==
    /\ mode = "local"
    /\ frames = <<>>
    /\ proc \in NextShapes(<<>>)
    /\ m_regions = LocalRegions(proc)
    /\ LET u == UpdatePageInfo(m_regions)
       IN  /\ m_largeRegions = u.m_largeRegions
           /\ rowCount = u.rowCount
           /\ tiles = u.tiles
    /\ InitCommon

\* MosaicWidget(host, port) connected to a producer that sends frames of HostileMenu
InitHostile ==
    /\ mode = "network"
    /\ frames \in HostileStreams
    /\ proc = <<>>
    /\ m_regions = <<>>
    /\ m_largeRegions = <<>>
    /\ rowCount = 0
    /\ tiles = <<>>
    /\ InitCommon

Init == InitNetwork \/ InitLocal

\* updatePageInfo(regions) as a step of the widget
DoUpdatePageInfoKeepingIndex(regions) ==
    \E u \in {UpdatePageInfo(regions)} :
        /\ m_regions' = regions
        /\ m_largeRegions' = m_largeRegions \o u.m_largeRegions
        /\ rowCount' = IF u.painted THEN u.rowCount ELSE rowCount
        /\ tiles' = IF u.painted THEN u.tiles ELSE tiles
        /\ crashed' = u.crash
DoUpdatePageInfo(regions) ==
    \E u \in {UpdatePageInfo(regions)} :
        /\ m_regions' = regions
        /\ m_largeRegions' = u.m_largeRegions
        /\ rowCount' = IF u.painted THEN u.rowCount ELSE rowCount
        /\ tiles' = IF u.painted THEN u.tiles ELSE tiles
        /\ crashed' = u.crash

\* void MosaicWidget::networkDataAvailable(): the socket delivers the next n bytes
NetworkDataAvailable ==
    /\ mode = "network"
    /\ ~crashed
    /\ \E n \in ChunkSizes(frames, pos) :
        \E d0 \in {AddData(m_buffer, m_length, m_mappedRegions,
                            SubSeq(Stream(frames), pos + 1, pos + n), 0)} :
        \E oob \in (IF d0.wild THEN OobOutcomes ELSE {0}) :
        \E d \in {IF oob = 0 THEN d0
                   ELSE AddData(m_buffer, m_length, m_mappedRegions,
                                SubSeq(Stream(frames), pos + 1, pos + n), oob)} :
            LET trues == IF d.ret THEN 1 ELSE 0
            IN  /\ pos' = pos + n
                /\ call' = [ret |-> d.ret,
                            decoded |-> d.decoded, cursorOk |-> d.cursorOk,
                            overran |-> d.overran, wild |-> d.wild, crash |-> d.crash,
                            kept |-> (d.crash \/ d.regions = m_mappedRegions),
                            first |-> FramesBefore(frames, pos) + 1,
                            last |-> IF FramesBefore(frames, pos + n)
                                        > FramesBefore(frames, pos)
                                     THEN FramesBefore(frames, pos + n) ELSE 0]
                /\ track' = IF pos + n > NextFrameEnd(frames, pos) THEN NoTrack
                            ELSE IF AtFrameStart(frames, pos)
                            THEN [start |-> pos, buffer |-> m_buffer, length |-> m_length,
                                  regions |-> m_mappedRegions, trues |-> trues,
                                  split |-> FALSE]
                            ELSE IF track.start < 0 THEN NoTrack
                            ELSE [track EXCEPT !.trues = @ + trues, !.split = TRUE]
                /\ shown' = NoData
                /\ IF d.crash
                   THEN /\ crashed' = TRUE
                        /\ UNCHANGED <<decoderVars, widgetVars>>
                   ELSE /\ m_buffer' = d.buffer
                        /\ m_length' = d.length
                        /\ m_mappedRegions' = d.regions
                        /\ IF d.ret
                           THEN DoUpdatePageInfo(d.regions)
                           ELSE UNCHANGED <<widgetVars, crashed>>
    /\ UNCHANGED <<mode, frames, proc>>

\* void MosaicWidget::localUpdateTimeout(): PageInfo pageInfo(m_pid) reads the process
LocalUpdateTimeout ==
    /\ mode = "local"
    /\ ~crashed
    /\ \E next \in NextShapes(proc) :
        /\ proc' = next
        /\ IF LocalRegions(next) # <<>>
           THEN /\ DoUpdatePageInfo(LocalRegions(next))
                /\ shown' = NoData
           ELSE /\ shown' = [kind |-> "info", addr |-> 0, useCount |-> 0,
                             backingFile |-> <<>>]
                /\ UNCHANGED <<widgetVars, crashed>>
    /\ UNCHANGED <<mode, frames, pos, decoderVars, call, track>>

\* bool MosaicWidget::eventFilter: a left-button mouse event at (x, y)
MousePress ==
    /\ ~crashed
    /\ \E out \in {PrintPageFlagsAtPos(m_regions, m_largeRegions, x, y) :
                        x \in PosX, y \in PosY} :
        /\ shown' = out
        /\ crashed' = (out.kind \in {"assert", "wild"})
    /\ UNCHANGED <<mode, frames, pos, proc, decoderVars, widgetVars, call, track>>

Next == NetworkDataAvailable \/ LocalUpdateTimeout \/ MousePress

Spec == Init /\ [][Next]_vars

\* the widget of a remote process fed by its socket alone, and the widget of a
\* local process
SpecNetwork == InitNetwork /\ [][NetworkDataAvailable]_vars
SpecLocal == InitLocal /\ [][LocalUpdateTimeout \/ MousePress]_vars

\* the widget of a remote process whose producer keeps no invariant of the regions
SpecHostile == InitHostile /\ [][NetworkDataAvailable]_vars

(***************************************************************************)
(* The decoder's contract.                                                 *)
(***************************************************************************)

\* the bytes of frame k of the stream
FrameBytes(k) == FrameMenu[frames[k]].bytes

\* the frame whose first byte is stream byte track.start + 1
TrackedFrame == FrameAt(frames, track.start)

\* the calls recorded in track have delivered exactly one whole frame
WholeFrameDelivered ==
    /\ mode = "network"
    /\ track.start >= 0
    /\ pos = NextFrameEnd(frames, track.start)

\* C1: partial-feed equivalence.  When a well-formed frame has been delivered
\* by a sequence of calls, the region list, the remaining buffer and the
\* latched length are those of one call with the whole frame from the same
\* decoder state, and exactly one of the calls, the last, returned true.
C1_PartialFeedEquivalence ==
    (WholeFrameDelivered /\ FrameMenu[frames[TrackedFrame]].wellFormed) =>
        LET whole == AddData(track.buffer, track.length, track.regions,
                             FrameBytes(TrackedFrame), 0)
        IN  /\ whole.ret /\ ~whole.crash
            /\ ~call.crash /\ ~crashed
            /\ m_mappedRegions = whole.regions
            /\ m_buffer = whole.buffer
            /\ m_length = whole.length
            /\ track.trues = 1
            /\ call.ret

\* a well-formed two-region frame arrived in several calls, after an earlier frame
C1_Witness ==
    /\ WholeFrameDelivered
    /\ track.split
    /\ track.start > 0
    /\ FrameMenu[frames[TrackedFrame]].wellFormed
    /\ Len(m_mappedRegions) = 2

\* the buffer after the new bytes are appended holds no complete frame at its front
Incomplete(buf) ==
    Len(buf) < sizeofSizeT \/ Len(buf) < sizeofSizeT + U64(SubSeq(buf, 1, 8))

\* the bytes delivered by the step
Delivered == SubSeq(Stream(frames), pos + 1, pos')

\* C2: every addData call returns true exactly if the bytes it delivers
\* complete at least one frame; it decodes every frame completed, and leaves
\* as region list the regions of the last frame completed alone.
C2_ReturnsTrueIffFrameDecoded ==
    [][(pos' # pos) =>
        LET done == FramesBefore(frames, pos') - FramesBefore(frames, pos)
        IN
        /\ (\A k \in call'.first..call'.last : FrameMenu[frames[k]].wellFormed) => ~crashed'
        /\ ~crashed' =>
            /\ call'.ret <=> done >= 1
            /\ call'.decoded = done
            /\ Incomplete(m_buffer')
            /\ (done >= 1 /\ FrameMenu[frames[FramesBefore(frames, pos')]].wellFormed)
                   => m_mappedRegions' = FrameMenu[frames[FramesBefore(frames, pos')]].regions
            /\ done = 0 => m_mappedRegions' = m_mappedRegions]_vars

\* one call decoded two frames; the single region of the second is the region list
C2_Witness ==
    /\ ~crashed
    /\ call.ret
    /\ call.decoded = 2
    /\ call.last = 2
    /\ frames[1] = 3
    /\ m_mappedRegions = <<Anon1>>

\* C3: a call that leaves the frame at the front of the buffer incomplete
\* returns false, without fault, and changes neither the decoder's region
\* list nor the displayed snapshot and its row index; the call that supplies
\* the frame's last byte decodes it and returns true.
C3_IncompleteFrameWaits ==
    [][(pos' # pos) =>
        IF Incomplete(m_buffer \o Delivered)
        THEN /\ ~call'.ret
             /\ ~call'.crash /\ ~crashed'
             /\ m_buffer' = m_buffer \o Delivered
             /\ m_mappedRegions' = m_mappedRegions
             /\ m_regions' = m_regions
             /\ m_largeRegions' = m_largeRegions
        ELSE call'.crash \/ (call'.ret /\ call'.decoded >= 1)]_vars

\* a frame is partly buffered, its length latched, while a snapshot is displayed
C3_Witness ==
    /\ ~crashed
    /\ ~call.ret
    /\ m_length > 0
    /\ Len(m_buffer) < m_length + sizeofSizeT
    /\ m_regions # <<>>

\* C4: when the last frame a call completes holds a region whose backing
\* file or page arrays extend past the frame's end, the call reports a fault
\* instead of a snapshot, reads no byte at or behind the frame's end and
\* leaves the region list alone.
C4_OverrunIsDecodeFault ==
    (call.last # 0 /\ ~FrameMenu[frames[call.last]].wellFormed) =>
        /\ ~call.ret
        /\ ~call.overran
        /\ call.kept

\* C5: after every call the buffer holds less than one frame: it is the part
\* of the stream behind the last frame boundary, every decoded frame having
\* taken exactly its length + 8 bytes with it, and the length latched is the
\* one in its first 8 bytes, none being latched while there are fewer.
C5_BufferHoldsLessThanOneFrame ==
    (mode = "network" /\ ~crashed) =>
        /\ Incomplete(m_buffer)
        /\ m_buffer = SubSeq(Stream(frames), FrameEnd[frames][FramesBefore(frames, pos)] + 1,
                             pos)
        /\ m_length = IF Len(m_buffer) < sizeofSizeT THEN -1
                      ELSE U64(SubSeq(m_buffer, 1, 8))

\* a frame was decoded and removed, and the length of the next, a different one, is latched
C5_Witness ==
    /\ mode = "network"
    /\ ~crashed
    /\ FramesBefore(frames, pos) = 1
    /\ Len(m_buffer) > sizeofSizeT
    /\ m_length > 0
    /\ m_length # Len(FrameBytes(1)) - sizeofSizeT

\* C6: round trip.  The call that completes an encoded frame of well-formed
\* regions leaves exactly these regions as the region list, the cursor of
\* the region loop ending at the frame's end.
C6_RoundTrip ==
    (/\ call.last # 0
     /\ \A k \in call.first..call.last :
            /\ FrameMenu[frames[k]].wellFormed
            /\ \A i \in 1..Len(FrameMenu[frames[k]].regions) :
                   WellFormedRegion(FrameMenu[frames[k]].regions[i])) =>
        /\ ~call.crash
        /\ call.ret
        /\ call.cursorOk
        /\ ~call.overran
        /\ m_mappedRegions = FrameMenu[frames[call.last]].regions

\* the frame of a two-page region with a one-byte file name and a second region was decoded
C6_Witness ==
    /\ ~crashed
    /\ call.ret
    /\ call.last # 0
    /\ m_mappedRegions = <<File2, Heap1>>

(***************************************************************************)
(* The layout's contract.                                                  *)
(***************************************************************************)

\* a region of at least one page that ends at a page boundary of its own
Shaped(mr) == mr.end > mr.start /\ (mr.end - mr.start) % pageSize = 0

\* the widget shows a snapshot that updatePageInfo laid out
LaidOut == ~crashed /\ m_regions # <<>>

Pages(from, to) == (to - from) \div pageSize

\* C7: reverse lookup is the inverse of the layout.  For every tile painted
\* from page i of region r, every position inside the tile is mapped back to
\* r.start + i * pageSize, and the lookup of that address reports the flags
\* and the use count of page i of r.
C7_ReverseLookupInverse ==
    LaidOut =>
        \A t \in {u \in 1..Len(tiles) : tiles[u].kind = "page"} :
        \A c \in tiles[t].column..(tiles[t].endColumn - 1) :
        \A dx, dy \in {0, s_pixelsPerTile - 1} :
            LET r == m_regions[tiles[t].region]
                i == tiles[t].page + (c - tiles[t].column)
                addr == AddressAtPos(m_largeRegions, c * s_pixelsPerTile + dx,
                                     tiles[t].row * s_pixelsPerTile + dy)
                out == PrintPageFlagsAtAddr(m_regions, addr)
            IN  /\ addr = r.start + i * pageSize
                /\ out.kind = "page"
                /\ out.flags = r.combinedFlags[i + 1]
                /\ out.useCount = r.useCounts[i + 1]

\* C7 for the tiles of pages at other addresses than 0
C7_InverseOffAddressZero ==
    LaidOut =>
        \A t \in {u \in 1..Len(tiles) : tiles[u].kind = "page"} :
        \A c \in tiles[t].column..(tiles[t].endColumn - 1) :
        \A dx, dy \in {0, s_pixelsPerTile - 1} :
            LET r == m_regions[tiles[t].region]
                i == tiles[t].page + (c - tiles[t].column)
                addr == AddressAtPos(m_largeRegions, c * s_pixelsPerTile + dx,
                                     tiles[t].row * s_pixelsPerTile + dy)
                out == PrintPageFlagsAtAddr(m_regions, addr)
            IN  /\ addr = r.start + i * pageSize
                /\ addr # 0 =>
                    /\ out.kind = "page"
                    /\ out.flags = r.combinedFlags[i + 1]
                    /\ out.useCount = r.useCounts[i + 1]

\* the regions of the snapshot at which a LargeRegion starts: the first, and
\* every one that starts more than 64 pages behind the end of its predecessor
Breaks ==
    {1} \cup {i \in 2..Len(m_regions) :
                 m_regions[i].start - m_regions[i - 1].end > 64 * pageSize}

\* the region before the next break behind region b
LastOfSpan(b) ==
    IF \E j \in Breaks : j > b
    THEN (CHOOSE j \in Breaks : j > b /\ \A l \in Breaks : l > b => j <= l) - 1
    ELSE Len(m_regions)

\* C8: coalescing.  A LargeRegion starts at the first region and at every
\* region that starts more than 64 pages behind its predecessor's end, and
\* reaches to the end of the last region before the next such region; so a
\* gap of 65 pages separates two LargeRegions, a gap of 64 pages does not,
\* and every region lies in exactly one LargeRegion.  The row index has one
\* entry per LargeRegion, with its start.
C8_Coalescing ==
    LaidOut =>
        LET largeRegions == LargeRegionsOf(m_regions)
        IN  /\ Len(largeRegions) = Cardinality(Breaks)
            /\ \A k \in 1..Len(largeRegions) :
                   /\ largeRegions[k][1] \in {m_regions[b].start : b \in Breaks}
                   /\ \E b \in Breaks :
                          /\ Cardinality({j \in Breaks : j <= b}) = k
                          /\ largeRegions[k] = <<m_regions[b].start,
                                                 m_regions[LastOfSpan(b)].end>>
            /\ \A i \in 2..Len(m_regions) :
                   /\ Pages(m_regions[i - 1].end, m_regions[i].start) = 65 => i \in Breaks
                   /\ Pages(m_regions[i - 1].end, m_regions[i].start) = 64 => i \notin Breaks
            /\ \A i \in 1..Len(m_regions) :
                   Cardinality({k \in 1..Len(largeRegions) :
                                   /\ largeRegions[k][1] <= m_regions[i].start
                                   /\ m_regions[i].end <= largeRegions[k][2]}) = 1
            /\ Len(m_largeRegions) = Len(largeRegions)
            /\ \A k \in 1..Len(largeRegions) : m_largeRegions[k][2] = largeRegions[k][1]

\* two regions 64 pages apart are laid out as one LargeRegion
C8_Witness ==
    /\ LaidOut
    /\ Len(m_regions) = 2
    /\ Pages(m_regions[1].end, m_regions[2].start) = 64
    /\ Len(m_largeRegions) = 1

CeilDiv(a, b) == IF a % b = 0 THEN a \div b ELSE a \div b + 1

RECURSIVE Sum(_)
Sum(ns) == IF ns = <<>> THEN 0 ELSE Head(ns) + Sum(Tail(ns))

\* C9: the row count of a non-empty snapshot is the sum over the
\* LargeRegions of ceil(pages / 512), plus 2 separator rows between
\* consecutive LargeRegions and none after the last; one region of exactly
\* 512 pages gives one row and no separator.
C9_RowCount ==
    LaidOut =>
        LET largeRegions == LargeRegionsOf(m_regions)
            n == Len(largeRegions)
        IN  /\ rowCount = Sum([k \in 1..n |->
                                 CeilDiv(Pages(largeRegions[k][1], largeRegions[k][2]), 512)])
                          + 2 * (n - 1)
            /\ (Len(m_regions) = 1 /\ Pages(m_regions[1].start, m_regions[1].end) = 512)
                   => /\ rowCount = 1
                      /\ \A t \in 1..Len(tiles) : tiles[t].kind # "separator"

\* a single region of exactly 512 pages is laid out in one row
C9_Witness ==
    /\ LaidOut
    /\ Len(m_regions) = 1
    /\ Pages(m_regions[1].start, m_regions[1].end) = 512
    /\ rowCount = 1
    /\ \A t \in 1..Len(tiles) : tiles[t].kind # "separator"

\* the row index entries whose first row is at or before row
EntriesUpTo(row) == {k \in 1..Len(m_largeRegions) : m_largeRegions[k][1] <= row}

\* C10: addressAtPos takes the row index entry with the greatest
\* firstRow <= row and returns
\* baseAddress + ((row - firstRow) * 512 + column) * pageSize, and the
\* "no address" result 0 when there is no such entry, as with the empty row
\* index; for the one region [0x1000, 0x3000) tile (0, 0) is 0x1000 and
\* tile (0, 1) is 0x2000.
C10_AddressAtPos ==
    (mode = "local" /\ ~crashed) =>
        /\ \A row \in 0..(rowCount + tilesPerSeparator), column \in {0, 1, 63, 511} :
           \A dx, dy \in {0, s_pixelsPerTile - 1} :
               LET addr == AddressAtPos(m_largeRegions, column * s_pixelsPerTile + dx,
                                        row * s_pixelsPerTile + dy)
               IN  IF EntriesUpTo(row) = {}
                   THEN addr = 0 /\ m_largeRegions = <<>>
                   ELSE LET k == CHOOSE j \in EntriesUpTo(row) :
                                     \A l \in EntriesUpTo(row) :
                                         m_largeRegions[l][1] <= m_largeRegions[j][1]
                        IN  addr = m_largeRegions[k][2]
                                   + ((row - m_largeRegions[k][1]) * 512 + column) * pageSize
        /\ (Len(m_regions) = 1 /\ m_regions[1].start = 4096 /\ m_regions[1].end = 12288)
               => /\ AddressAtPos(m_largeRegions, 0, 0) = 4096
                  /\ AddressAtPos(m_largeRegions, s_pixelsPerTile, 0) = 8192

\* the snapshot is the one region [0x1000, 0x3000), and a press on tile (0, 1)
\* has shown page 0x2000
C10_Witness ==
    /\ LaidOut
    /\ Len(m_regions) = 1
    /\ m_regions[1].start = 4096
    /\ m_regions[1].end = 12288
    /\ shown.kind = "page"
    /\ shown.addr = 8192

\* LargeRegions taken as regions: their start and end, no pages
AsRegions(largeRegions) ==
    [k \in 1..Len(largeRegions) |->
        MappedRegion(largeRegions[k][1], largeRegions[k][2], <<>>, <<>>, <<>>)]

\* C17: coalescing is idempotent.  For the sorted, non-overlapping regions of
\* a snapshot, coalescing the LargeRegions, each taken as a region, yields
\* the same sequence of (start, end) LargeRegions, which is not empty.
C17_CoalescingIdempotent ==
    LaidOut =>
        LET largeRegions == LargeRegionsOf(m_regions)
        IN  /\ largeRegions # <<>>
            /\ LargeRegionsOf(AsRegions(largeRegions)) = largeRegions

\* two regions 65 pages apart are coalesced into two LargeRegions, which
\* coalesced again stay two
C17_Witness ==
    /\ LaidOut
    /\ Len(m_regions) = 2
    /\ Pages(m_regions[1].end, m_regions[2].start) = 65
    /\ Len(LargeRegionsOf(m_regions)) = 2
    /\ Len(LargeRegionsOf(AsRegions(LargeRegionsOf(m_regions)))) = 2

\* what the claim says of the row index for the LargeRegions of the snapshot
RowIndexAgrees ==
    LET largeRegions == LargeRegionsOf(m_regions)
        n == Len(largeRegions)
    IN  /\ Len(m_largeRegions) = n
        /\ m_largeRegions[1][1] = 0
        /\ \A k \in 2..n : m_largeRegions[k - 1][1] < m_largeRegions[k][1]
        /\ \A k \in 1..n :
               /\ m_largeRegions[k][2] = largeRegions[k][1]
               /\ m_largeRegions[k][1]
                      = Sum([j \in 1..(k - 1) |->
                               CeilDiv(Pages(largeRegions[j][1], largeRegions[j][2]), 512)])
                        + 2 * (k - 1)

\* C19: after updatePageInfo on a non-empty sorted snapshot the row index
\* has one (firstRow, baseAddress) entry per LargeRegion, in strictly
\* ascending firstRow order, the first at row 0; each baseAddress is the
\* start of its LargeRegion and each firstRow the number of page rows of all
\* preceding LargeRegions plus 2 for each of them.
C19_RowIndex == LaidOut => RowIndexAgrees

\* C19 for the snapshots in which every region has at least one page
C19_RowIndexOfShapedRegions ==
    (LaidOut /\ \A i \in 1..Len(m_regions) : Shaped(m_regions[i])) => RowIndexAgrees

(***************************************************************************)
(* The lookup's contract.                                                  *)
(***************************************************************************)

\* addresses at and around the borders of the snapshot's regions, and address 0
ProbeAddrs ==
    {a \in {0} \cup UNION {{m_regions[i].start - 1, m_regions[i].start,
                            m_regions[i].start + 1, m_regions[i].start + pageSize - 1,
                            m_regions[i].start + pageSize, m_regions[i].end - 1,
                            m_regions[i].end, m_regions[i].end + pageSize} :
                           i \in 1..Len(m_regions)} : a >= 0}

\* the regions of the snapshot that hold addr
Containing(addr) ==
    {i \in 1..Len(m_regions) : m_regions[i].start <= addr /\ addr < m_regions[i].end}

\* addr lies between two regions or at or behind the end of the last
InGapOrBehind(addr) ==
    /\ Containing(addr) = {}
    /\ \E i \in 1..Len(m_regions) : m_regions[i].end <= addr

\* what the claim says of the lookup of one address
LookupAgrees(addr) ==
    LET out == PrintPageFlagsAtAddr(m_regions, addr)
        ends == {i \in 1..Len(m_regions) : m_regions[i].end > addr}
    IN  /\ out.kind = "page" <=> Containing(addr) # {}
        /\ Containing(addr) # {} =>
               LET i == CHOOSE j \in ends : \A l \in ends : j <= l
                   index == (addr - m_regions[i].start) \div pageSize
               IN  /\ i \in Containing(addr)
                   /\ index < Len(m_regions[i].useCounts)
                   /\ index < Len(m_regions[i].combinedFlags)
                   /\ out.kind = "page" =>
                          /\ out.flags = m_regions[i].combinedFlags[index + 1]
                          /\ out.useCount = m_regions[i].useCounts[index + 1]
        /\ InGapOrBehind(addr) => out = NoData

\* C11: over a sorted, non-overlapping snapshot printPageFlagsAtAddr(addr)
\* reports page data exactly if a region holds addr; it is then the first
\* region whose end is behind addr, with page index (addr - start) / pageSize,
\* an index of its arrays; an address in a gap between regions or at or
\* behind the last region's end reports nothing.
C11_AddressLookup == LaidOut => \A addr \in ProbeAddrs : LookupAgrees(addr)

\* C11 for every address but 0
C11_LookupOffAddressZero == LaidOut => \A addr \in ProbeAddrs \ {0} : LookupAgrees(addr)

(***************************************************************************)
(* The painting's contract.                                                *)
(***************************************************************************)

\* the classification as a table of conditions in order of precedence
ClassTable(flags, useCount) ==
    << <<31 \notin flags, "colorGray">>,
       <<11 \in flags /\ 12 \notin flags /\ useCount <= 1, "colorGreenDark">>,
       <<11 \in flags /\ 12 \notin flags /\ useCount > 1, "colorGreen">>,
       <<22 \in flags, "colorMagentaLight">>,
       <<useCount = 1, "colorMagenta">>,
       <<useCount > 1, "colorYellow">>,
       <<20 \in flags, "colorRedDark">>,
       <<TRUE, "colorWhite">> >>

\* the first entry of the table whose condition holds
FirstMatch(table) ==
    table[CHOOSE k \in 1..Len(table) : table[k][1] /\ \A l \in 1..(k - 1) : ~table[l][1]][2]

\* flag words over the bits the classification tests and one it ignores
ClassWords == SUBSET {4, 11, 12, 20, 22, 31}

\* C12: the colour of a page's tile is a total function of its flag word and
\* use count, the first match of: PRESENT clear, gray; MMAP and not ANON,
\* green (dark for a use count <= 1, light for > 1); THP, light magenta
\* whatever the use count; use count 1, magenta; use count > 1, yellow;
\* NOPAGE, dark red; otherwise white.  Every painted page tile has that colour.
C12_Classification ==
    /\ \A flags \in ClassWords, useCount \in 0..3 :
           TileColor(flags, useCount) = FirstMatch(ClassTable(flags, useCount))
    /\ LaidOut =>
           \A t \in {u \in 1..Len(tiles) : tiles[u].kind = "page"} :
           \A c \in tiles[t].column..(tiles[t].endColumn - 1) :
               LET r == m_regions[tiles[t].region]
                   i == tiles[t].page + (c - tiles[t].column) + 1
               IN  ColorOfTile(m_regions, tiles[t], c)
                       = FirstMatch(ClassTable(r.combinedFlags[i], r.useCounts[i]))

\* a snapshot is painted in which a THP page with use count 0 is light magenta,
\* a page that is not present gray and a NOPAGE page with use count 0 dark red
C12_Witness ==
    /\ LaidOut
    /\ \E t \in 1..Len(tiles) : \E c \in tiles[t].column..(tiles[t].endColumn - 1) :
           /\ tiles[t].kind = "page"
           /\ LET i == tiles[t].page + (c - tiles[t].column) + 1
              IN  /\ 22 \in m_regions[tiles[t].region].combinedFlags[i]
                  /\ m_regions[tiles[t].region].useCounts[i] = 0
           /\ ColorOfTile(m_regions, tiles[t], c) = "colorMagentaLight"
    /\ \E t \in 1..Len(tiles) : \E c \in tiles[t].column..(tiles[t].endColumn - 1) :
           /\ tiles[t].kind = "page"
           /\ ColorOfTile(m_regions, tiles[t], c) = "colorGray"
    /\ \E t \in 1..Len(tiles) : \E c \in tiles[t].column..(tiles[t].endColumn - 1) :
           /\ tiles[t].kind = "page"
           /\ ColorOfTile(m_regions, tiles[t], c) = "colorRedDark"

(***************************************************************************)
(* The flag names' contract.                                               *)
(***************************************************************************)

\* flag words: none, single bits of every group, several bits, all named bits
ProbeWords ==
    {{}, {0}, {22}, {31}, {0, 11, 31}, {28, 29, 30, 31}, {23}, {24, 31}, {5, 27},
     (0..22) \cup (28..31)}

\* the bits of a flag word in ascending order
RECURSIVE Ascending(_)
Ascending(bits) ==
    IF bits = {} THEN <<>>
    ELSE LET low == CHOOSE b \in bits : \A c \in bits : b <= c
         IN  <<low>> \o Ascending(bits \ {low})

\* the names in a result of printablePageFlags, the separators left out
NamesIn(ret) ==
    LET idx == Ascending({k \in 1..Len(ret) : ret[k] # ", "})
    IN  [k \in 1..Len(idx) |-> ret[idx[k]]]

\* C13: printablePageFlags is total over the 32-bit flag words: no assert
\* fails for any word, also not for one with a reserved bit 23..27 set, and the
\* result is the names of exactly the set bits in ascending bit order, joined
\* by separators, bits 28..31 being SOFT_DIRTY, FILE_PAGE / SHARE_ANON,
\* SWAPPED, PRESENT.
C13_PrintableFlagsTotal ==
    /\ <<pageFlagNames[29], pageFlagNames[30], pageFlagNames[31], pageFlagNames[32]>>
           = <<"SOFT_DIRTY", "FILE_PAGE / SHARE_ANON", "SWAPPED", "PRESENT">>
    /\ \A flags \in ProbeWords \cup (IF shown.kind = "page" THEN {shown.flags} ELSE {}) :
           LET out == printablePageFlags(flags)
               named == Ascending({b \in flags : pageFlagNames[b + 1] # ""})
           IN  /\ ~out.failed
               /\ NamesIn(out.ret) = [k \in 1..Len(named) |-> pageFlagNames[named[k] + 1]]
               /\ Len(out.ret) = IF named = <<>> THEN 0 ELSE 2 * Len(named) - 1

\* C13 for the flag words without a reserved bit
C13_PrintableNamedFlags ==
    \A flags \in {w \in ProbeWords : w \cap (23..27) = {}}
                 \cup (IF shown.kind = "page" THEN {shown.flags} ELSE {}) :
        LET out == printablePageFlags(flags)
            named == Ascending(flags)
        IN  /\ ~out.failed
            /\ NamesIn(out.ret) = [k \in 1..Len(named) |-> pageFlagNames[named[k] + 1]]
            /\ Len(out.ret) = IF named = <<>> THEN 0 ELSE 2 * Len(named) - 1

(***************************************************************************)
(* The handling of malformed input.                                        *)
(***************************************************************************)

\* C14: a region with end <= start (also end = start) or with a length that
\* is no multiple of pageSize is rejected: no such region is in the
\* snapshot the widget holds, nor in the region list the decoder holds.
C14_MalformedRegionRejected ==
    ~crashed =>
        /\ \A i \in 1..Len(m_regions) : Shaped(m_regions[i])
        /\ \A i \in 1..Len(m_mappedRegions) : Shaped(m_mappedRegions[i])

\* C14 for the length alone: the widget never holds a region whose length is
\* no multiple of pageSize while it runs, the layout's assert stopping it
C14_UnalignedNeverShown ==
    ~crashed => \A i \in 1..Len(m_regions) : (m_regions[i].end - m_regions[i].start) % pageSize = 0

\* some region starts before the end of its predecessor
Unsorted(regions) == \E i \in 2..Len(regions) : regions[i].start < regions[i - 1].end

\* C15: when updatePageInfo is given a region sequence that is not sorted or
\* has overlapping regions, the snapshot is rejected and the one displayed
\* before stays live: m_regions and the row index keep their values.
C15_UnsortedRejected ==
    [][(pos' # pos /\ call'.ret /\ ~call'.crash /\ Unsorted(m_mappedRegions')) =>
           /\ m_regions' = m_regions
           /\ m_largeRegions' = m_largeRegions]_vars

\* C16: when a local refresh poll finds no mapped regions, the snapshot
\* becomes the empty snapshot: after localUpdateTimeout m_regions and the row
\* index are empty, and every cell lookup reports no address and no data.
C16_EmptyPollEmptySnapshot ==
    (mode = "local" /\ shown.kind = "info") =>
        /\ m_regions = <<>>
        /\ m_largeRegions = <<>>
        /\ \A x \in PosX, y \in PosY :
               /\ AddressAtPos(m_largeRegions, x, y) = 0
               /\ PrintPageFlagsAtPos(m_regions, m_largeRegions, x, y) = NoData

\* C18: every region of a snapshot that addData produced has as many use
\* counts as flag words, one for each of its (end - start) / pageSize pages,
\* and so the layout's check start + len(useCounts) * pageSize = end holds for
\* every region of every decoded snapshot.
C18_ArrayLengths ==
    \A i \in 1..Len(m_mappedRegions) :
        LET mr == m_mappedRegions[i]
        IN  /\ Len(mr.useCounts) = Len(mr.combinedFlags)
            /\ Len(mr.useCounts) = (mr.end - mr.start) \div pageSize
            /\ mr.start + Len(mr.useCounts) * pageSize = mr.end

\* C18 without the layout's check: the arrays have the length that the
\* truncating division gives
C18_ArrayLengthsTruncated ==
    \A i \in 1..Len(m_mappedRegions) :
        LET mr == m_mappedRegions[i]
        IN  /\ Len(mr.useCounts) = Len(mr.combinedFlags)
            /\ Len(mr.useCounts) = (mr.end - mr.start) \div pageSize

(***************************************************************************)
(* Cells that show no page.                                                *)
(***************************************************************************)

\* columns at the borders of a row and around the smallest distance of two LargeRegions
ProbeColumns == {0, 1, 2, 64, 65, 66, 67, 68, 510, 511}

\* the runs that fill a row behind the last page of a LargeRegion
FillRuns ==
    {t \in 1..Len(tiles) :
        /\ tiles[t].kind = "gap"
        /\ t = Len(tiles) \/ tiles[t + 1].kind = "separator"}

\* the cells <<row, column>> of separator rows, of fill tiles and below the last row
MissCells ==
    {<<tiles[t].row, c>> : t \in {u \in 1..Len(tiles) : tiles[u].kind = "separator"},
                           c \in ProbeColumns}
    \cup UNION {{<<tiles[t].row, c>> :
                    c \in {d \in ProbeColumns : tiles[t].column <= d /\ d < tiles[t].endColumn}} :
                t \in FillRuns}
    \cup {<<row, c>> : row \in rowCount..(rowCount + 1), c \in ProbeColumns}

\* C20: for a cell in a separator row, in the fill tiles behind the last
\* page of a LargeRegion or below the last row, addressAtPos followed by
\* printPageFlagsAtAddr reports no page data; it never reports a page of
\* another LargeRegion than the one whose rows were selected.
C20_MissOutsidePages ==
    LaidOut =>
        \A cell \in MissCells :
            PrintPageFlagsAtPos(m_regions, m_largeRegions, cell[2] * s_pixelsPerTile,
                                cell[1] * s_pixelsPerTile).kind # "page"

\* C20 for the cells below the last row alone
C20_MissBelowLastRow ==
    LaidOut =>
        \A row \in rowCount..(rowCount + 1), c \in ProbeColumns :
            PrintPageFlagsAtPos(m_regions, m_largeRegions, c * s_pixelsPerTile,
                                row * s_pixelsPerTile) = NoData

(***************************************************************************)
(* The painting's geometry.                                                *)
(***************************************************************************)

\* sorted, non-overlapping regions that start and end at page boundaries
SortedAligned(regions) ==
    /\ \A i \in 1..Len(regions) :
           /\ regions[i].start % pageSize = 0
           /\ regions[i].end % pageSize = 0
           /\ regions[i].start <= regions[i].end
    /\ ~Unsorted(regions)

\* the cells <<row, column>> of the runs of a kind
CellsOf(kind) ==
    UNION {{<<tiles[t].row, c>> : c \in tiles[t].column..(tiles[t].endColumn - 1)} :
           t \in {u \in 1..Len(tiles) : tiles[u].kind = kind}}

\* the number of tiles painted, every paintTile call counted
TilesPainted == Sum([t \in 1..Len(tiles) |-> tiles[t].endColumn - tiles[t].column])

\* the first row of LargeRegion k as the row count lays the image out
FirstRowOf(largeRegions, k) ==
    Sum([j \in 1..(k - 1) |-> CeilDiv(Pages(largeRegions[j][1], largeRegions[j][2]), 512)])
    + 2 * (k - 1)

\* the cell of the page at address addr of LargeRegion k
CellOfAddr(largeRegions, k, addr) ==
    LET off == Pages(largeRegions[k][1], addr)
    IN  <<FirstRowOf(largeRegions, k) + off \div 512, off % 512>>

\* the LargeRegion that holds region i
LargeRegionOf(largeRegions, i) ==
    CHOOSE k \in 1..Len(largeRegions) :
        /\ largeRegions[k][1] <= m_regions[i].start
        /\ m_regions[i].end <= largeRegions[k][2]
        /\ \A l \in 1..(k - 1) : ~(/\ largeRegions[l][1] <= m_regions[i].start
                                   /\ m_regions[i].end <= largeRegions[l][2])

\* what the claim says of the image painted for the snapshot
PaintingAgrees ==
    LET largeRegions == LargeRegionsOf(m_regions)
        n == Len(largeRegions)
        pageRuns == {t \in 1..Len(tiles) : tiles[t].kind = "page"}
        pageCells == UNION {{CellOfAddr(largeRegions, LargeRegionOf(largeRegions, i),
                                        m_regions[i].start + p * pageSize) :
                                p \in 0..(Len(m_regions[i].useCounts) - 1)} :
                            i \in 1..Len(m_regions)}
        spanCells == UNION {{CellOfAddr(largeRegions, k, largeRegions[k][1] + o * pageSize) :
                                o \in 0..(Pages(largeRegions[k][1], largeRegions[k][2]) - 1)} :
                            k \in 1..n}
        rowCells == UNION {{<<FirstRowOf(largeRegions, k) + r, c>> :
                               r \in 0..(CeilDiv(Pages(largeRegions[k][1],
                                                       largeRegions[k][2]), 512) - 1),
                               c \in 0..511} :
                           k \in 1..n}
        separatorCells == UNION {{<<FirstRowOf(largeRegions, k + 1) - r, c>> :
                                     r \in 1..2, c \in 0..511} : k \in 1..(n - 1)}
    IN  /\ ~UpdatePageInfo(m_regions).crash
        /\ \A t \in 1..Len(tiles) :
               /\ 0 <= tiles[t].column /\ tiles[t].column < tiles[t].endColumn
               /\ tiles[t].endColumn <= 512
               /\ 0 <= tiles[t].row /\ tiles[t].row < rowCount
        /\ \A t \in pageRuns :
               <<tiles[t].row, tiles[t].column>>
                   = CellOfAddr(largeRegions, LargeRegionOf(largeRegions, tiles[t].region),
                                m_regions[tiles[t].region].start + tiles[t].page * pageSize)
        /\ CellsOf("page") = pageCells
        /\ spanCells \ pageCells \subseteq CellsOf("gap")
        /\ CellsOf("gap") = rowCells \ pageCells
        /\ CellsOf("separator") = separatorCells
        /\ TilesPainted = Cardinality(CellsOf("page")) + Cardinality(CellsOf("gap"))
                          + Cardinality(CellsOf("separator"))

\* C21: for any sorted, non-overlapping, page-aligned region sequence every
\* painted tile has column < 512 and row < rowCount, each page and each gap
\* page inside a LargeRegion is painted exactly once, in address order, the
\* row wrapping at column 512, and the layout's assertions hold.
C21_PaintingInBounds ==
    (~crashed /\ m_regions # <<>> /\ SortedAligned(m_regions)) => PaintingAgrees

\* C21 for the snapshots in which every region has at least one page
C21_PaintingOfShapedRegions ==
    (/\ ~crashed /\ m_regions # <<>> /\ SortedAligned(m_regions)
     /\ \A i \in 1..Len(m_regions) : Shaped(m_regions[i])) => PaintingAgrees

(***************************************************************************)
(* The clamping of widget positions.                                       *)
(***************************************************************************)

\* x coordinates left of the widget, inside it, at its last pixel and at or
\* beyond its right edge (the image is 512 * 4 = 2048 pixels wide)
ProbeX == PosX \cup {-1, 0, 2044, 2047, 2049, 2052, 4096}

\* C22: addressAtPos clamps the cell of any widget position to the grid: the
\* column is in 0..511, never 512, and the row is not negative, so a
\* position at or beyond the right edge gets the address of the last column
\* of its row, not one of the following row.
C22_ClampToGrid ==
    \A x \in ProbeX, y \in PosY :
        /\ ColumnOfPos(x) \in 0..511
        /\ RowOfPos(y) >= 0
        /\ x >= s_columnCount * s_pixelsPerTile =>
               AddressAtPos(m_largeRegions, x, y)
                   = AddressAtCell(m_largeRegions, RowOfPos(y), s_columnCount - 1)

\* C22 as the code has it: the column is in 0..512, the row is not negative,
\* and a position inside the widget gets the cell it lies in
C22_ClampToGridInclusive ==
    \A x \in ProbeX, y \in PosY :
        /\ ColumnOfPos(x) \in 0..512
        /\ RowOfPos(y) >= 0
        /\ (0 <= x /\ x < s_columnCount * s_pixelsPerTile) =>
               ColumnOfPos(x) = x \div s_pixelsPerTile

(***************************************************************************)
(* The lookup's assertion.                                                 *)
(***************************************************************************)

\* y coordinates above the widget, in every row of the image and below it
ProbeY == PosY \cup {row * s_pixelsPerTile : row \in 0..(rowCount + 1)}

\* C23: for every address that addressAtPos can return, after any sequence
\* of snapshot updates, printPageFlagsAtAddr does not hit its assertion: a
\* returned address other than 0 is not below the start of the first region,
\* the "no address" result 0 is ignored, and the row index is the one
\* derived from the current m_regions.
C23_AssertionNeverHit ==
    ~crashed =>
        /\ shown.kind # "assert"
        /\ m_largeRegions = UpdatePageInfo(m_regions).m_largeRegions
        /\ \A x \in ProbeX, y \in ProbeY :
               LET addr == AddressAtPos(m_largeRegions, x, y)
               IN  /\ PrintPageFlagsAtAddr(m_regions, addr).kind # "assert"
                   /\ addr # 0 => m_regions # <<>> /\ addr >= m_regions[1].start
                   /\ addr = 0 => PrintPageFlagsAtAddr(m_regions, addr) = NoData

\* after an update to two regions, the first not at address 0, a press has
\* shown a page
C23_Witness ==
    /\ ~crashed
    /\ Len(m_regions) = 2
    /\ Len(proc) = 2
    /\ m_regions[1].start > 0
    /\ shown.kind = "page"

====
